---- MODULE Spec2Model ----
(***************************************************************************)
(* Model of src/common/recordbatch/src/adapter.rs: the three record batch  *)
(* stream adapters                                                         *)
(*   DfRecordBatchStreamAdapter     (Outbound: Greptime -> DataFusion)     *)
(*   RecordBatchStreamAdapter       (Inbound:  DataFusion -> Greptime)     *)
(*   AsyncRecordBatchStreamAdapter  (Lazy: future of a DataFusion stream)  *)
(* The wrapped streams and the wrapped future are trait objects owned by   *)
(* the adapter; what they return when polled is chosen by the environment. *)
(* One behaviour constructs one adapter and then calls its methods.        *)
(***************************************************************************)
EXTENDS Integers, Sequences, FiniteSets, TLC

\* Number of poll_next calls made on the adapter in one behaviour.
MaxPolls == 4

----------------------------------------------------------------------------
(* Value universes of the environment.                                     *)

\* DfRecordBatch values a stream can carry.
Batches == {"X", "Y"}
\* DataFusionError values the wrapped future can resolve to.
DfErrors == {"E1", "E2"}
\* ArrowError values an external stream can yield as an item.
ArrowErrors == {"E"}
\* crate::error::Error values an internal (Greptime) stream can yield.
InternalErrors == {"IE"}
\* datatypes::schema::Schema values.
Schemas == {"S1", "S2"}
\* arrow schemas; "dfBad" has no Greptime representation.
DfSchemas == {"dfS1", "dfS2", "dfBad"}
\* The boxed futures handed to AsyncRecordBatchStreamAdapter::new.
Futures == {"future"}

----------------------------------------------------------------------------
(* Rust values, written as tagged tuples: Poll, Option, Result.            *)

Pending == <<"Pending">>
Ready(x) == <<"Ready">> \o x
None == <<"None">>
Some(x) == <<"Some">> \o x
Ok(x) == <<"Ok">> \o x
Err(x) == <<"Err">> \o x

\* The payload of Ready(Some(Ok(p))) or Ready(Some(Err(p))).
Payload(r) == SubSeq(r, 4, Len(r))

IsPending(r) == r[1] = "Pending"
IsReadyNone(r) == r[1] = "Ready" /\ r[2] = "None"
IsReadySomeOk(r) == r[1] = "Ready" /\ r[2] = "Some" /\ r[3] = "Ok"
IsReadySomeErr(r) == r[1] = "Ready" /\ r[2] = "Some" /\ r[3] = "Err"

\* crate::RecordBatch { schema, df_recordbatch }
RecordBatch(schema, df_recordbatch) == <<schema>> \o df_recordbatch
\* the df_recordbatch field of a crate::RecordBatch
df_recordbatch(recordbatch) == <<recordbatch[2]>>

\* ArrowError::External(String, Box<dyn Error>)
External(msg, e) == <<"External", msg>> \o e
\* error::Error::PollStream { source }
PollStream(source) == <<"PollStream">> \o source
\* error::Error::SchemaConversion { source }
SchemaConversion(source) == <<"SchemaConversion">> \o source
\* error::Error::CreateRecordBatches { reason }, with
\* reason = format!("Read error {:?} from stream", e)
CreateRecordBatches(e) == <<"CreateRecordBatches", "Read error ">> \o e \o <<" from stream">>

\* size_hint values: (lower, Option<upper>)
Hints == {<<0, None>>, <<1, Some(<<2>>)>>}

----------------------------------------------------------------------------
(* Schema conversions of the datatypes crate.                              *)

\* Schema::try_from(DfSchemaRef) -> Result<Schema, Error>
try_from(df_schema) ==
    CASE df_schema = "dfS1" -> Ok(<<"S1">>)
      [] df_schema = "dfS2" -> Ok(<<"S2">>)
      [] OTHER -> Err(<<"unsupported arrow schema">>)

\* Schema::arrow_schema(&self) -> &DfSchemaRef
arrow_schema(schema) ==
    CASE schema = "S1" -> "dfS1"
      [] schema = "S2" -> "dfS2"

----------------------------------------------------------------------------
(* The wrapped resources.  A stream handle has a schema and a current      *)
(* size hint; a poll of it yields an item and leaves a new size hint.      *)

\* SendableRecordBatchStream handles (internal streams).
InternalStreams == [schema : Schemas, hint : Hints]
\* DfSendableRecordBatchStream handles (external streams).
DfStreams == [schema : DfSchemas, hint : Hints]

\* What poll_next of an internal stream can return.
InternalPollResults(stream) ==
    {Pending, Ready(None)}
      \cup {Ready(Some(Ok(RecordBatch(stream.schema, <<b>>)))) : b \in Batches}
      \cup {Ready(Some(Err(<<e>>))) : e \in InternalErrors}

\* What poll_next of an external stream can return.
DfPollResults ==
    {Pending, Ready(None)}
      \cup {Ready(Some(Ok(<<b>>))) : b \in Batches}
      \cup {Ready(Some(Err(<<e>>))) : e \in ArrowErrors}

\* What poll of the wrapped future can return.
FuturePollResults ==
    {Pending}
      \cup {Ready(Ok(<<s>>)) : s \in DfStreams}
      \cup {Ready(Err(<<e>>)) : e \in DfErrors}

\* A wrapped resource that poll_next did not touch.
NotPolled == <<"NotPolled">>

\* The environment that answers every poll as it likes.
NoEnv == <<"free">>

\* The polls the environment answers in one poll_next of the Lazy adapter:
\* the future is there to be polled only in state Uninit, and a stream only
\* once the future has resolved to one.
FutureAnswers(state) ==
    IF state[1] = "Uninit" THEN FuturePollResults ELSE {NotPolled}

StreamAnswers(state, resolved) ==
    IF \/ state[1] = "Inited" /\ state[2] = "Ok"
       \/ state[1] = "Uninit" /\ resolved[1] = "Ready" /\ resolved[2] = "Ok"
    THEN [item : DfPollResults, hint : Hints]
    ELSE {[item |-> NotPolled, hint |-> <<0, None>>]}

----------------------------------------------------------------------------
VARIABLES
    outbound,   \* <<>> or <<the DfRecordBatchStreamAdapter>>
    inbound,    \* <<>> or <<the RecordBatchStreamAdapter>>
    lazy,       \* <<>> or <<the AsyncRecordBatchStreamAdapter>>
    ctor,       \* <<>> or the constructor call made and what it returned
    calls,      \* the poll_next calls on the adapter, oldest first
    last,       \* the latest method call and, for schema/size_hint, its result
    convCalls,  \* number of Schema::try_from invocations so far
    streamHint, \* what the wrapped stream's size_hint() now reports; <<>> while
                \* the adapter wraps no stream
    futPolls,   \* number of polls made of the wrapped future so far
    strPolls,   \* number of polls made of the wrapped stream so far
    env         \* what the wrapped future and stream will still answer, where
                \* the environment is scripted; NoEnv where it is free

vars == <<outbound, inbound, lazy, ctor, calls, last, convCalls, streamHint,
          futPolls, strPolls, env>>

Init ==
    /\ outbound = <<>>
    /\ inbound = <<>>
    /\ lazy = <<>>
    /\ ctor = <<>>
    /\ calls = <<>>
    /\ last = <<"none">>
    /\ convCalls = 0
    /\ streamHint = <<>>
    /\ futPolls = 0
    /\ strPolls = 0
    /\ env = NoEnv

----------------------------------------------------------------------------
(* DfRecordBatchStreamAdapter: Greptime SendableRecordBatchStream ->       *)
(* DataFusion RecordBatchStream.                                           *)

\* DfRecordBatchStreamAdapter::new(stream)
DfRecordBatchStreamAdapter_new(stream) == [stream |-> stream]

\* <DfRecordBatchStreamAdapter as DfRecordBatchStream>::schema
DfRecordBatchStreamAdapter_schema(self) == arrow_schema(self.stream.schema)

\* poll_next with the Ok arm yielding the whole envelope's first field (the
\* schema) in place of the df_recordbatch field.
DfRecordBatchStreamAdapter_poll_next_wrong_field(self, polled) ==
    [self |-> [self EXCEPT !.stream.hint = polled.hint],
     str  |-> polled.item,
     ret  |-> IF IsPending(polled.item) THEN Pending
              ELSE IF IsReadySomeOk(polled.item)
                   THEN Ready(Some(Ok(<<Payload(polled.item)[1]>>)))
              ELSE IF IsReadySomeErr(polled.item)
                   THEN Ready(Some(Err(External("", Payload(polled.item)))))
              ELSE Ready(None)]

\* poll_next answering Pending where the wrapped stream is exhausted.
DfRecordBatchStreamAdapter_poll_next_none_pending(self, polled) ==
    [self |-> [self EXCEPT !.stream.hint = polled.hint],
     str  |-> polled.item,
     ret  |-> IF IsReadySomeOk(polled.item)
                   THEN Ready(Some(Ok(df_recordbatch(Payload(polled.item)))))
              ELSE IF IsReadySomeErr(polled.item)
                   THEN Ready(Some(Err(External("", Payload(polled.item)))))
              ELSE Pending]

\* <DfRecordBatchStreamAdapter as Stream>::poll_next.  polled is what the one
\* poll of the wrapped stream returns (item) and the size hint it leaves.
DfRecordBatchStreamAdapter_poll_next(self, polled) ==
    [self |-> [self EXCEPT !.stream.hint = polled.hint],
     str  |-> polled.item,
     ret  |-> IF IsPending(polled.item) THEN Pending
              ELSE IF IsReadySomeOk(polled.item)
                   THEN Ready(Some(Ok(df_recordbatch(Payload(polled.item)))))
              ELSE IF IsReadySomeErr(polled.item)
                   THEN Ready(Some(Err(External("", Payload(polled.item)))))
              ELSE Ready(None)]

\* <DfRecordBatchStreamAdapter as Stream>::size_hint
DfRecordBatchStreamAdapter_size_hint(self) == self.stream.hint

----------------------------------------------------------------------------
(* RecordBatchStreamAdapter: DataFusion SendableRecordBatchStream ->       *)
(* Greptime RecordBatchStream.                                             *)

\* RecordBatchStreamAdapter::try_new(stream) -> Result<Self>; the `?` returns
\* the SchemaConversion error before any adapter is built.
RecordBatchStreamAdapter_try_new(stream) ==
    LET schema == try_from(stream.schema)
    IN  IF schema[1] = "Err"
        THEN Err(SchemaConversion(Tail(schema)))
        ELSE Ok(<<[schema |-> schema[2], stream |-> stream]>>)

\* <RecordBatchStreamAdapter as RecordBatchStream>::schema
RecordBatchStreamAdapter_schema(self) == self.schema

\* poll_next treating an error item as the end of the stream.
RecordBatchStreamAdapter_poll_next_err_ends(self, polled) ==
    [self |-> [self EXCEPT !.stream.hint = polled.hint],
     str  |-> polled.item,
     ret  |-> IF IsPending(polled.item) THEN Pending
              ELSE IF IsReadySomeOk(polled.item)
                   THEN Ready(Some(Ok(RecordBatch(self.schema, Payload(polled.item)))))
              ELSE Ready(None)]

\* poll_next fused: it remembers that the stream reported exhaustion and from
\* then on returns Ready(None) without polling the stream.
RecordBatchStreamAdapter_poll_next_fused(self, polled) ==
    IF "done" \in DOMAIN self
    THEN [self |-> self, str |-> NotPolled, ret |-> Ready(None)]
    ELSE [self |-> IF IsReadyNone(polled.item)
                   THEN [done |-> TRUE] @@ [self EXCEPT !.stream.hint = polled.hint]
                   ELSE [self EXCEPT !.stream.hint = polled.hint],
          str  |-> polled.item,
          ret  |-> IF IsPending(polled.item) THEN Pending
                   ELSE IF IsReadySomeErr(polled.item)
                        THEN Ready(Some(Err(PollStream(Payload(polled.item)))))
                   ELSE IF IsReadySomeOk(polled.item)
                        THEN Ready(Some(Ok(RecordBatch(RecordBatchStreamAdapter_schema(self),
                                                       Payload(polled.item)))))
                   ELSE Ready(None)]

\* <RecordBatchStreamAdapter as Stream>::poll_next.  The `?` on an error item
\* returns Poll::Ready(Some(Err(PollStream { source }))).
RecordBatchStreamAdapter_poll_next(self, polled) ==
    [self |-> [self EXCEPT !.stream.hint = polled.hint],
     str  |-> polled.item,
     ret  |-> IF IsPending(polled.item) THEN Pending
              ELSE IF IsReadySomeErr(polled.item)
                   THEN Ready(Some(Err(PollStream(Payload(polled.item)))))
              ELSE IF IsReadySomeOk(polled.item)
                   THEN Ready(Some(Ok(RecordBatch(RecordBatchStreamAdapter_schema(self),
                                                  Payload(polled.item)))))
              ELSE Ready(None)]

\* <RecordBatchStreamAdapter as Stream>::size_hint
RecordBatchStreamAdapter_size_hint(self) == self.stream.hint

----------------------------------------------------------------------------
(* AsyncRecordBatchStreamAdapter: a future of a DataFusion stream ->       *)
(* Greptime RecordBatchStream.                                             *)

\* AsyncRecordBatchStreamAdapterState::Uninit(FutureStream)
Uninit(stream_future) == <<"Uninit", stream_future>>
\* AsyncRecordBatchStreamAdapterState::Inited(Result<stream, DataFusionError>)
Inited(result) == <<"Inited">> \o result

IsUninit(state) == state[1] = "Uninit"
IsInitedOk(state) == state[1] = "Inited" /\ state[2] = "Ok"
IsInitedErr(state) == state[1] = "Inited" /\ state[2] = "Err"

\* AsyncRecordBatchStreamAdapter::new(schema, stream)
AsyncRecordBatchStreamAdapter_new(schema, stream) ==
    [schema |-> schema, state |-> Uninit(stream)]

\* schema() answering with the resolved stream's own schema, converted, once
\* there is a stream.
AsyncRecordBatchStreamAdapter_schema_of_stream(self) ==
    IF self.state[1] = "Inited" /\ self.state[2] = "Ok"
         /\ try_from(self.state[3].schema)[1] = "Ok"
    THEN try_from(self.state[3].schema)[2]
    ELSE self.schema

\* <AsyncRecordBatchStreamAdapter as RecordBatchStream>::schema
AsyncRecordBatchStreamAdapter_schema(self) == self.schema

\* UninitArm with the `continue` lost: the poll in which the future resolves
\* stores the outcome and returns Pending.
UninitArm_no_continue(self, resolved) ==
    IF IsPending(resolved)
    THEN [self |-> self, continue |-> FALSE, ret |-> Pending]
    ELSE [self |-> [self EXCEPT !.state = Inited(Tail(resolved))],
          continue |-> FALSE, ret |-> Pending]

\* UninitArm moving the future out of the state to poll it and not putting
\* it back when it is pending.
UninitArm_drop_future(self, resolved) ==
    IF IsPending(resolved)
    THEN [self |-> [self EXCEPT !.state = Uninit("taken")],
          continue |-> FALSE, ret |-> Pending]
    ELSE [self |-> [self EXCEPT !.state = Inited(Tail(resolved))],
          continue |-> TRUE, ret |-> Pending]

\* The Uninit arm of poll_next's match: one poll of the future.  ready!
\* returns Pending before the assignment to self.state; otherwise the state
\* becomes Inited(result) and the loop continues.
UninitArm(self, resolved) ==
    IF IsPending(resolved)
    THEN [self |-> self, continue |-> FALSE, ret |-> Pending]
    ELSE [self |-> [self EXCEPT !.state = Inited(Tail(resolved))],
          continue |-> TRUE, ret |-> Pending]

\* The Inited(Ok(stream)) arm going back to Uninit when the stream is
\* exhausted, so that the next poll drives the future again.
InitedOkArm_rearm(self, polled) ==
    [self |-> IF IsReadyNone(polled.item)
              THEN [self EXCEPT !.state = Uninit("future")]
              ELSE [self EXCEPT !.state = Inited(Ok(<<[@[3] EXCEPT !.hint = polled.hint]>>))],
     ret  |-> IF IsPending(polled.item) THEN Pending
              ELSE IF IsReadyNone(polled.item) THEN Ready(None)
              ELSE IF IsReadySomeErr(polled.item)
                   THEN Ready(Some(Err(PollStream(Payload(polled.item)))))
              ELSE Ready(Some(Ok(RecordBatch(self.schema, Payload(polled.item)))))]

\* The Inited(Ok(stream)) arm storing a per-item error as the adapter's
\* outcome, so that later polls take the Inited(Err(e)) arm.
InitedOkArm_store_error(self, polled) ==
    [self |-> IF IsReadySomeErr(polled.item)
              THEN [self EXCEPT !.state = Inited(Err(Payload(polled.item)))]
              ELSE [self EXCEPT !.state = Inited(Ok(<<[@[3] EXCEPT !.hint = polled.hint]>>))],
     ret  |-> IF IsPending(polled.item) THEN Pending
              ELSE IF IsReadyNone(polled.item) THEN Ready(None)
              ELSE IF IsReadySomeErr(polled.item)
                   THEN Ready(Some(Err(PollStream(Payload(polled.item)))))
              ELSE Ready(Some(Ok(RecordBatch(self.schema, Payload(polled.item)))))]

\* The Inited(Ok(stream)) arm building each batch under the resolved stream's
\* own schema, converted, when the conversion succeeds.
InitedOkArm_stream_schema(self, polled) ==
    [self |-> [self EXCEPT !.state = Inited(Ok(<<[@[3] EXCEPT !.hint = polled.hint]>>))],
     ret  |-> IF IsPending(polled.item) THEN Pending
              ELSE IF IsReadyNone(polled.item) THEN Ready(None)
              ELSE IF IsReadySomeErr(polled.item)
                   THEN Ready(Some(Err(PollStream(Payload(polled.item)))))
              ELSE Ready(Some(Ok(RecordBatch(
                     IF try_from(self.state[3].schema)[1] = "Ok"
                     THEN try_from(self.state[3].schema)[2]
                     ELSE self.schema,
                     Payload(polled.item)))))]

\* The Inited(Ok(stream)) arm ending the stream at its first error item: the
\* error is swallowed and exhaustion reported.
InitedOkArm_error_ends(self, polled) ==
    [self |-> [self EXCEPT !.state = Inited(Ok(<<[@[3] EXCEPT !.hint = polled.hint]>>))],
     ret  |-> IF IsPending(polled.item) THEN Pending
              ELSE IF IsReadyNone(polled.item) THEN Ready(None)
              ELSE IF IsReadySomeErr(polled.item) THEN Ready(None)
              ELSE Ready(Some(Ok(RecordBatch(AsyncRecordBatchStreamAdapter_schema(self),
                                             Payload(polled.item)))))]

\* The Inited(Ok(stream)) arm: one poll of the stream; ready! returns Pending,
\* and Option::map wraps an item, the `?` in the closure making an error
\* item Err(PollStream { source }).
InitedOkArm(self, polled) ==
    [self |-> [self EXCEPT !.state = Inited(Ok(<<[@[3] EXCEPT !.hint = polled.hint]>>))],
     ret  |-> IF IsPending(polled.item) THEN Pending
              ELSE IF IsReadyNone(polled.item) THEN Ready(None)
              ELSE IF IsReadySomeErr(polled.item)
                   THEN Ready(Some(Err(PollStream(Payload(polled.item)))))
              ELSE Ready(Some(Ok(RecordBatch(AsyncRecordBatchStreamAdapter_schema(self),
                                             Payload(polled.item)))))]

\* The Inited(Err(e)) arm taking the failure out of the state: the first
\* poll reports it, the later ones find none and report exhaustion.
InitedErrArm_take(self) ==
    IF Len(self.state) > 2
    THEN [self |-> [self EXCEPT !.state = Inited(Err(<<>>))],
          ret  |-> Ready(Some(Err(CreateRecordBatches(SubSeq(self.state, 3, Len(self.state))))))]
    ELSE [self |-> self, ret |-> Ready(None)]

\* The Inited(Err(e)) arm: an error item built from the stored failure.
InitedErrArm(self) ==
    [self |-> self,
     ret  |-> Ready(Some(Err(CreateRecordBatches(SubSeq(self.state, 3, Len(self.state))))))]

\* <AsyncRecordBatchStreamAdapter as Stream>::poll_next: the loop.  resolved
\* is what the future returns if it is polled in this call, polled what the
\* stream returns if it is polled; fut and str record which of them were,
\* nfut and nstr how often, iters the passes through the loop.
RECURSIVE AsyncLoop(_, _, _, _)
AsyncLoop(self, resolved, polled, done) ==
    IF IsUninit(self.state)
    THEN LET arm == UninitArm(self, resolved)
             seen == [done EXCEPT !.fut = IF IsPending(resolved) THEN Pending
                                          ELSE SubSeq(resolved, 1, 2)
                                               \o (IF resolved[2] = "Err" THEN <<resolved[3]>> ELSE <<>>),
                                  !.iters = @ + 1, !.nfut = @ + 1]
         IN  IF arm.continue
             THEN AsyncLoop(arm.self, resolved, polled, seen)
             ELSE [self |-> arm.self, ret |-> arm.ret] @@ seen
    ELSE IF IsInitedOk(self.state)
    THEN LET arm == InitedOkArm(self, polled)
         IN  [self |-> arm.self, ret |-> arm.ret]
               @@ [done EXCEPT !.str = polled.item, !.iters = @ + 1, !.nstr = @ + 1]
    ELSE LET arm == InitedErrArm(self)
         IN  [self |-> arm.self, ret |-> arm.ret] @@ [done EXCEPT !.iters = @ + 1]

\* poll_next putting an empty stream in the place of a failed resolution and
\* polling that.
AsyncRecordBatchStreamAdapter_poll_next_fallback(self, resolved, polled) ==
    IF IsInitedErr(self.state)
    THEN [self |-> self, ret |-> Ready(None), fut |-> NotPolled, str |-> Ready(None),
          iters |-> 1, nfut |-> 0, nstr |-> 1]
    ELSE AsyncLoop(self, resolved, polled,
                   [fut |-> NotPolled, str |-> NotPolled, iters |-> 0, nfut |-> 0, nstr |-> 0])

\* <AsyncRecordBatchStreamAdapter as Stream>::poll_next
AsyncRecordBatchStreamAdapter_poll_next(self, resolved, polled) ==
    AsyncLoop(self, resolved, polled,
              [fut |-> NotPolled, str |-> NotPolled, iters |-> 0, nfut |-> 0, nstr |-> 0])

\* size_hint() forwarding the resolved stream's hint once there is a stream.
AsyncRecordBatchStreamAdapter_size_hint_forward(self) ==
    IF self.state[1] = "Inited" /\ self.state[2] = "Ok"
    THEN self.state[3].hint
    ELSE <<0, None>>

\* <AsyncRecordBatchStreamAdapter as Stream>::size_hint
AsyncRecordBatchStreamAdapter_size_hint(self) == <<0, None>>

----------------------------------------------------------------------------
(* Actions: one per constructor and per method call of the adapter.        *)

NothingBuilt == ctor = <<>>

\* A poll_next call as recorded in calls.
Call(r, loops) == [fut |-> r.fut, str |-> r.str, ret |-> r.ret, iters |-> loops]

\* let adapter = DfRecordBatchStreamAdapter::new(stream)
NewOutbound ==
    /\ NothingBuilt
    /\ \E stream \in InternalStreams :
         /\ outbound' = <<DfRecordBatchStreamAdapter_new(stream)>>
         /\ ctor' = <<"DfRecordBatchStreamAdapter::new", stream.schema>>
         /\ streamHint' = stream.hint
    /\ last' = <<"new">>
    /\ UNCHANGED <<inbound, lazy, calls, convCalls, futPolls, strPolls, env>>

\* let adapter = RecordBatchStreamAdapter::try_new(stream)
TryNewInbound ==
    /\ NothingBuilt
    /\ \E stream \in DfStreams :
         LET r == RecordBatchStreamAdapter_try_new(stream)
         IN  /\ inbound' = IF r[1] = "Ok" THEN Tail(r) ELSE <<>>
             /\ ctor' = <<"RecordBatchStreamAdapter::try_new", stream.schema>>
                          \o (IF r[1] = "Ok" THEN <<"Ok">> ELSE r)
             /\ streamHint' = IF r[1] = "Ok" THEN stream.hint ELSE <<>>
    /\ convCalls' = convCalls + 1
    /\ last' = <<"try_new">>
    /\ UNCHANGED <<outbound, lazy, calls, futPolls, strPolls, env>>

\* The constructor driving the future once before any poll_next.
NewLazy_prepoll ==
    /\ NothingBuilt
    /\ \E schema \in Schemas, stream \in Futures :
         /\ lazy' = <<AsyncRecordBatchStreamAdapter_new(schema, stream)>>
         /\ ctor' = <<"AsyncRecordBatchStreamAdapter::new", schema>>
    /\ last' = <<"new">>
    /\ futPolls' = futPolls + 1
    /\ UNCHANGED <<outbound, inbound, calls, convCalls, streamHint, strPolls, env>>

\* let adapter = AsyncRecordBatchStreamAdapter::new(schema, stream)
NewLazy ==
    /\ NothingBuilt
    /\ \E schema \in Schemas, stream \in Futures :
         /\ lazy' = <<AsyncRecordBatchStreamAdapter_new(schema, stream)>>
         /\ ctor' = <<"AsyncRecordBatchStreamAdapter::new", schema>>
    /\ last' = <<"new">>
    /\ UNCHANGED <<outbound, inbound, calls, convCalls, streamHint, futPolls, strPolls, env>>

\* adapter.poll_next(cx) on the Outbound adapter
PollOutbound ==
    /\ outbound # <<>>
    /\ Len(calls) < MaxPolls
    /\ \E item \in InternalPollResults(outbound[1].stream), hint \in Hints :
         LET r == DfRecordBatchStreamAdapter_poll_next(outbound[1],
                                                       [item |-> item, hint |-> hint])
         IN  /\ outbound' = <<r.self>>
             /\ calls' = Append(calls, Call([fut |-> NotPolled] @@ r, 0))
             /\ streamHint' = hint
    /\ last' = <<"poll_next">>
    /\ strPolls' = strPolls + 1
    /\ UNCHANGED <<inbound, lazy, ctor, convCalls, futPolls, env>>

\* poll_next on the Inbound adapter converting the stream's schema again in
\* every call.
PollInbound_reconvert ==
    /\ inbound # <<>>
    /\ Len(calls) < MaxPolls
    /\ \E item \in DfPollResults, hint \in Hints :
         LET r == RecordBatchStreamAdapter_poll_next(inbound[1],
                                                     [item |-> item, hint |-> hint])
         IN  /\ inbound' = <<r.self>>
             /\ calls' = Append(calls, Call([fut |-> NotPolled] @@ r, 0))
             /\ streamHint' = hint
    /\ last' = <<"poll_next">>
    /\ convCalls' = convCalls + 1
    /\ strPolls' = strPolls + 1
    /\ UNCHANGED <<outbound, lazy, ctor, futPolls, env>>

\* adapter.poll_next(cx) on the Inbound adapter
PollInbound ==
    /\ inbound # <<>>
    /\ Len(calls) < MaxPolls
    /\ \E item \in DfPollResults, hint \in Hints :
         LET r == RecordBatchStreamAdapter_poll_next(inbound[1],
                                                     [item |-> item, hint |-> hint])
         IN  /\ inbound' = <<r.self>>
             /\ calls' = Append(calls, Call([fut |-> NotPolled] @@ r, 0))
             /\ streamHint' = hint
    /\ last' = <<"poll_next">>
    /\ strPolls' = strPolls + 1
    /\ UNCHANGED <<outbound, lazy, ctor, convCalls, futPolls, env>>

\* adapter.poll_next(cx) on the Lazy adapter
PollLazy ==
    /\ lazy # <<>>
    /\ Len(calls) < MaxPolls
    /\ \E resolved \in FutureAnswers(lazy[1].state) :
       \E polled \in StreamAnswers(lazy[1].state, resolved) :
         LET r == AsyncRecordBatchStreamAdapter_poll_next(lazy[1], resolved, polled)
         IN  /\ lazy' = <<r.self>>
             /\ calls' = Append(calls, Call(r, r.iters))
             /\ streamHint' = IF r.str = NotPolled THEN streamHint ELSE polled.hint
             /\ futPolls' = futPolls + r.nfut
             /\ strPolls' = strPolls + r.nstr
    /\ last' = <<"poll_next">>
    /\ UNCHANGED <<outbound, inbound, ctor, convCalls, env>>

\* adapter.schema()
SchemaOutbound ==
    /\ outbound # <<>>
    /\ last' = <<"schema", DfRecordBatchStreamAdapter_schema(outbound[1])>>
    /\ UNCHANGED <<outbound, inbound, lazy, ctor, calls, convCalls, streamHint,
                   futPolls, strPolls, env>>

SchemaInbound ==
    /\ inbound # <<>>
    /\ last' = <<"schema", RecordBatchStreamAdapter_schema(inbound[1])>>
    /\ UNCHANGED <<outbound, inbound, lazy, ctor, calls, convCalls, streamHint,
                   futPolls, strPolls, env>>

SchemaLazy ==
    /\ lazy # <<>>
    /\ last' = <<"schema", AsyncRecordBatchStreamAdapter_schema(lazy[1])>>
    /\ UNCHANGED <<outbound, inbound, lazy, ctor, calls, convCalls, streamHint,
                   futPolls, strPolls, env>>

\* adapter.size_hint()
SizeHintOutbound ==
    /\ outbound # <<>>
    /\ last' = <<"size_hint", DfRecordBatchStreamAdapter_size_hint(outbound[1])>>
    /\ UNCHANGED <<outbound, inbound, lazy, ctor, calls, convCalls, streamHint,
                   futPolls, strPolls, env>>

SizeHintInbound ==
    /\ inbound # <<>>
    /\ last' = <<"size_hint", RecordBatchStreamAdapter_size_hint(inbound[1])>>
    /\ UNCHANGED <<outbound, inbound, lazy, ctor, calls, convCalls, streamHint,
                   futPolls, strPolls, env>>

SizeHintLazy ==
    /\ lazy # <<>>
    /\ last' = <<"size_hint", AsyncRecordBatchStreamAdapter_size_hint(lazy[1])>>
    /\ UNCHANGED <<outbound, inbound, lazy, ctor, calls, convCalls, streamHint,
                   futPolls, strPolls, env>>

Next ==
    \/ NewOutbound
    \/ TryNewInbound
    \/ NewLazy
    \/ PollOutbound
    \/ PollInbound
    \/ PollLazy
    \/ SchemaOutbound
    \/ SchemaInbound
    \/ SchemaLazy
    \/ SizeHintOutbound
    \/ SizeHintInbound
    \/ SizeHintLazy

Spec == Init /\ [][Next]_vars

----------------------------------------------------------------------------
(* Properties.                                                             *)

IsOutbound == outbound # <<>>
IsInbound == inbound # <<>>
IsLazy == lazy # <<>>
Calls == 1 .. Len(calls)

\* Pending, Ready(None), Ready(Some(Ok)) or Ready(Some(Err)): a poll result
\* without its payload.
Shape(r) == SubSeq(r, 1, IF Len(r) < 3 THEN Len(r) ELSE 3)
\* The raw DfRecordBatch inside a Ready(Some(Ok(..))) of either envelope.
Raw(r) == r[Len(r)]
\* The call in which the wrapped future reported ready.
Resolves(c) == c.fut[1] = "Ready"
ResolvesOk(c) == c.fut[1] = "Ready" /\ c.fut[2] = "Ok"
ResolvesErr(c) == c.fut[1] = "Ready" /\ c.fut[2] = "Err"

\* C1: Lazy adapter: a poll in which the future is pending returns Pending
\* and polls no stream; the poll in which the future resolves to a stream has
\* only such pending polls before it, polls the stream in that same call and
\* returns what that poll gave (item, exhaustion or pending).
C1_NoExtraPending ==
    IsLazy =>
      \A i \in Calls :
        /\ calls[i].fut = Pending =>
             calls[i].ret = Pending /\ calls[i].str = NotPolled
        /\ ResolvesOk(calls[i]) =>
             /\ \A j \in 1 .. (i - 1) : calls[j].fut = Pending /\ calls[j].ret = Pending
             /\ calls[i].str # NotPolled
             /\ Shape(calls[i].ret) = Shape(calls[i].str)

\* Two pending polls, then the poll that resolves the future yields a batch.
C1_Witness ==
    /\ IsLazy
    /\ Len(calls) >= 3
    /\ calls[1].fut = Pending
    /\ calls[2].fut = Pending
    /\ ResolvesOk(calls[3])
    /\ IsReadySomeOk(calls[3].ret)

\* The batches in poll results, in order: those given by field f of the calls.
RECURSIVE BatchesOf(_, _)
BatchesOf(log, f) ==
    IF log = <<>> THEN <<>>
    ELSE (IF IsReadySomeOk(Head(log)[f]) THEN <<Raw(Head(log)[f])>> ELSE <<>>)
           \o BatchesOf(Tail(log), f)

\* C2: every adapter emits a batch exactly in the polls in which the wrapped
\* stream produced one, and it is that batch; so the emitted batches are the
\* produced ones, in order, none dropped, duplicated or held back.
C2_SameBatchesInOrder ==
    /\ \A i \in Calls :
         /\ IsReadySomeOk(calls[i].ret) <=> IsReadySomeOk(calls[i].str)
         /\ IsReadySomeOk(calls[i].ret) => Raw(calls[i].ret) = Raw(calls[i].str)
    /\ BatchesOf(calls, "ret") = BatchesOf(calls, "str")

\* Each adapter has emitted two different batches, in the order produced.
C2_WitnessOutbound ==
    /\ IsOutbound
    /\ BatchesOf(calls, "ret") = <<"Y", "X">>

C2_WitnessInbound ==
    /\ IsInbound
    /\ BatchesOf(calls, "ret") = <<"Y", "X">>

C2_WitnessLazy ==
    /\ IsLazy
    /\ BatchesOf(calls, "ret") = <<"Y", "X">>

\* C3: Lazy adapter: from the poll in which the future resolves to failure e
\* on, every poll returns Ready(Some(Err(CreateRecordBatches))) built from e,
\* polls neither the future again nor any stream, and the state keeps e.
C3_FailureRepeats ==
    IsLazy =>
      \A i \in Calls :
        ResolvesErr(calls[i]) =>
          /\ lazy[1].state = Inited(Err(<<calls[i].fut[3]>>))
          /\ \A j \in i .. Len(calls) :
               /\ calls[j].ret = Ready(Some(Err(CreateRecordBatches(<<calls[i].fut[3]>>))))
               /\ calls[j].str = NotPolled
               /\ j > i => calls[j].fut = NotPolled

\* The future failed after one pending poll and two more polls followed.
C3_Witness ==
    /\ IsLazy
    /\ Len(calls) = 4
    /\ calls[1].fut = Pending
    /\ ResolvesErr(calls[2])
    /\ calls[4].ret = Ready(Some(Err(CreateRecordBatches(<<"E2">>))))

\* A terminal outcome of a poll: exhaustion, or the Lazy adapter's error for
\* a failed resolution.
Terminal(c) ==
    \/ c.ret = Ready(None)
    \/ IsLazy /\ IsReadySomeErr(c.ret) /\ c.ret[4] = "CreateRecordBatches"

\* C4: once a poll has returned a terminal outcome, every later poll of the
\* adapter returns exhaustion.
C4_ExhaustionAfterTerminal ==
    \A i \in Calls :
      Terminal(calls[i]) =>
        \A j \in (i + 1) .. Len(calls) : calls[j].ret = Ready(None)

\* C4, the Lazy adapter alone: after the resolution-failure error, exhaustion.
C4_LazyExhaustionAfterFailure ==
    IsLazy =>
      \A i \in Calls :
        ResolvesErr(calls[i]) =>
          \A j \in (i + 1) .. Len(calls) : calls[j].ret = Ready(None)

\* The error an eager adapter makes of the wrapped stream's error item.
Wrapped(cause) ==
    IF IsOutbound THEN External("", cause) ELSE PollStream(cause)

\* C5: Outbound and Inbound adapters: every poll returns the kind of result
\* the wrapped stream gave in that poll, whatever came before (no error or
\* done flag); an error item of the wrapped stream becomes one error item
\* carrying it as cause; as many error items are emitted as were produced.
C5_EagerErrorsOneForOne ==
    (IsOutbound \/ IsInbound) =>
      /\ \A i \in Calls :
           /\ Shape(calls[i].ret) = Shape(calls[i].str)
           /\ IsReadySomeErr(calls[i].str) =>
                calls[i].ret = Ready(Some(Err(Wrapped(Payload(calls[i].str)))))
      /\ Cardinality({i \in Calls : IsReadySomeErr(calls[i].ret)})
           = Cardinality({i \in Calls : IsReadySomeErr(calls[i].str)})
      /\ IsOutbound => DOMAIN outbound[1] = {"stream"}
      /\ IsInbound => DOMAIN inbound[1] = {"schema", "stream"}

\* An error item, then a batch, then an error item again.
C5_WitnessInbound ==
    /\ IsInbound
    /\ Len(calls) = 3
    /\ calls[1].ret = Ready(Some(Err(PollStream(<<"E">>))))
    /\ IsReadySomeOk(calls[2].ret)
    /\ calls[3].ret = Ready(Some(Err(PollStream(<<"E">>))))

C5_WitnessOutbound ==
    /\ IsOutbound
    /\ Len(calls) = 3
    /\ calls[1].ret = Ready(Some(Err(External("", <<"IE">>))))
    /\ IsReadySomeOk(calls[2].ret)
    /\ calls[3].ret = Ready(Some(Err(External("", <<"IE">>))))

\* The calls in which the wrapped future reported ready.
Resolutions == {i \in Calls : Resolves(calls[i])}

\* C6: Lazy adapter: the state is Uninit (holding the future) until a poll in
\* which the future reports ready and Inited (holding that outcome) ever
\* after; there is at most one such poll, the future is polled in every call
\* before it and in none after it.
C6_StateMachine ==
    IsLazy =>
      LET state == lazy[1].state
      IN  /\ IsUninit(state) \/ IsInitedOk(state) \/ IsInitedErr(state)
          /\ IsUninit(state) <=> Resolutions = {}
          /\ IsUninit(state) => state[2] \in Futures /\ Len(state) = 2
          /\ Cardinality(Resolutions) <= 1
          /\ \A i \in Resolutions :
               /\ \A j \in 1 .. (i - 1) : calls[j].fut = Pending
               /\ \A j \in (i + 1) .. Len(calls) : calls[j].fut = NotPolled
               /\ IsInitedOk(state) <=> ResolvesOk(calls[i])
               /\ IsInitedErr(state) <=> ResolvesErr(calls[i])

\* The future resolved in the second poll, the stream ended, and a poll
\* followed.
C6_Witness ==
    /\ IsLazy
    /\ Len(calls) = 4
    /\ calls[1].fut = Pending
    /\ ResolvesOk(calls[2])
    /\ calls[3].ret = Ready(None)
    /\ IsInitedOk(lazy[1].state)

\* C7: Lazy adapter: in every state schema() is the schema given to the
\* constructor, and a schema() call returns it, polls nothing and changes
\* nothing of the adapter.
C7_SchemaStable ==
    /\ [](IsLazy =>
            /\ AsyncRecordBatchStreamAdapter_schema(lazy[1]) = ctor[2]
            /\ last[1] = "schema" => last[2] = ctor[2])
    /\ [][(IsLazy /\ last'[1] = "schema") => (lazy' = lazy /\ calls' = calls)]_vars

\* schema() was called after the future resolved to a stream whose own
\* schema is not the configured one.
C7_Witness ==
    /\ IsLazy
    /\ last[1] = "schema"
    /\ IsInitedOk(lazy[1].state)
    /\ lazy[1].state[3].schema # arrow_schema(ctor[2])
    /\ Len(calls) >= 2

\* schema() was called before the first poll.
C7_WitnessBeforePoll ==
    /\ IsLazy
    /\ last[1] = "schema"
    /\ calls = <<>>

\* schema() was called after the future failed.
C7_WitnessAfterFailure ==
    /\ IsLazy
    /\ last[1] = "schema"
    /\ IsInitedErr(lazy[1].state)

Polled(x) == x # NotPolled
\* What the future, and what the stream, answered to the polls made of them.
FutLog == SelectSeq([i \in Calls |-> calls[i].fut], Polled)
StrLog == SelectSeq([i \in Calls |-> calls[i].str], Polled)
IsPrefix(s, t) == Len(s) <= Len(t) /\ SubSeq(t, 1, Len(s)) = s

\* C8: Lazy adapter: while the future answers pending, pending, ready with a
\* stream, and the stream answers batch X, error E, the polls return Pending,
\* Pending, Ready(Some(Ok(X))), Ready(Some(Err(PollStream(E)))) and these four
\* polls use up those answers; always, an error item of the stream is
\* emitted as one PollStream error, the state stays Inited(Ok(stream)) and
\* the next poll polls the stream again.
C8_PerItemErrorScenario ==
    IsLazy =>
      /\ \A X \in Batches, E \in ArrowErrors :
           (/\ IsPrefix(FutLog, <<Pending, Pending, <<"Ready", "Ok">>>>)
            /\ IsPrefix(StrLog, <<Ready(Some(Ok(<<X>>))), Ready(Some(Err(<<E>>)))>>))
           => /\ Len(calls) <= 4
              /\ \A i \in Calls :
                   calls[i].ret = <<Pending, Pending,
                                    Ready(Some(Ok(RecordBatch(ctor[2], <<X>>)))),
                                    Ready(Some(Err(PollStream(<<E>>))))>>[i]
              /\ Len(calls) = 4 => Len(FutLog) = 3 /\ Len(StrLog) = 2
      /\ \A i \in Calls :
           IsReadySomeErr(calls[i].str) =>
             /\ calls[i].ret = Ready(Some(Err(PollStream(Payload(calls[i].str)))))
             /\ IsInitedOk(lazy[1].state)
             /\ i < Len(calls) =>
                  calls[i + 1].str # NotPolled /\ calls[i + 1].fut = NotPolled

\* The scenario was played to its fourth poll.
C8_Witness ==
    /\ IsLazy
    /\ Len(calls) = 4
    /\ FutLog = <<Pending, Pending, <<"Ready", "Ok">>>>
    /\ StrLog = <<Ready(Some(Ok(<<"X">>))), Ready(Some(Err(<<"E">>)))>>
    /\ calls[4].ret = Ready(Some(Err(PollStream(<<"E">>))))

\* A poll after a per-item error delegated to the stream again.
C8_WitnessNextPoll ==
    /\ IsLazy
    /\ Len(calls) = 3
    /\ IsReadySomeErr(calls[2].str)
    /\ IsReadySomeOk(calls[3].ret)

\* C9: a size_hint() call returns the wrapped stream's current hint on the
\* Outbound and Inbound adapters and (0, None) on the Lazy adapter, whatever
\* its state and whatever the resolved stream reports, and changes no state
\* of the adapter.
C9_SizeHint ==
    /\ [](last[1] = "size_hint" =>
            last[2] = IF IsLazy THEN <<0, None>> ELSE streamHint)
    /\ [][last'[1] = "size_hint" =>
            UNCHANGED <<outbound, inbound, lazy, calls, streamHint>>]_vars

\* size_hint() was called on a Lazy adapter whose resolved stream reports
\* another hint than (0, None).
C9_Witness ==
    /\ IsLazy
    /\ last[1] = "size_hint"
    /\ IsInitedOk(lazy[1].state)
    /\ streamHint = <<1, Some(<<2>>)>>

\* size_hint() was called on an eager adapter after a poll changed the
\* wrapped stream's hint.
C9_WitnessOutbound ==
    /\ IsOutbound
    /\ last = <<"size_hint", <<1, Some(<<2>>)>>>>
    /\ Len(calls) = 2

C9_WitnessInbound ==
    /\ IsInbound
    /\ last = <<"size_hint", <<1, Some(<<2>>)>>>>
    /\ Len(calls) = 2

\* C10: after RecordBatchStreamAdapter::try_new the schema conversion has run
\* exactly once, whatever was called since.  If it failed, try_new returned
\* a SchemaConversion error, there is no adapter and the stream was never
\* polled; if it succeeded, the adapter holds the converted schema, schema()
\* returns it and every emitted batch carries it.
C10_TryNew ==
    (ctor # <<>> /\ ctor[1] = "RecordBatchStreamAdapter::try_new") =>
      /\ convCalls = 1
      /\ try_from(ctor[2])[1] = "Err" =>
           /\ inbound = <<>>
           /\ calls = <<>>
           /\ streamHint = <<>>
           /\ SubSeq(ctor, 3, 4) = <<"Err", "SchemaConversion">>
      /\ try_from(ctor[2])[1] = "Ok" =>
           /\ inbound # <<>>
           /\ ctor[3] = "Ok"
           /\ inbound[1].schema = try_from(ctor[2])[2]
           /\ last[1] = "schema" => last[2] = inbound[1].schema
           /\ \A i \in Calls :
                IsReadySomeOk(calls[i].ret) => calls[i].ret[4] = inbound[1].schema

\* try_new failed on a stream whose schema does not convert.
C10_Witness ==
    /\ ctor # <<>>
    /\ ctor[1] = "RecordBatchStreamAdapter::try_new"
    /\ ctor[2] = "dfBad"
    /\ ctor[3] = "Err"

\* try_new succeeded and three batches were emitted since.
C10_WitnessPolled ==
    /\ IsInbound
    /\ Len(calls) = 3
    /\ \A i \in Calls : IsReadySomeOk(calls[i].ret)
    /\ convCalls = 1

\* The step is a poll_next call.
IsPollStep == Len(calls') = Len(calls) + 1
\* 1 if the resource was polled in the call, else 0.
Count(x) == IF x = NotPolled THEN 0 ELSE 1

\* C11: the wrapped future and stream are polled only inside poll_next; one
\* poll_next of an eager adapter polls the stream exactly once, one of the
\* Lazy adapter polls the future at most once and the stream at most once;
\* so after k poll_next calls neither has been polled more than k times.
C11_Backpressure ==
    /\ [](/\ strPolls <= Len(calls)
          /\ futPolls <= Len(calls)
          /\ (IsOutbound \/ IsInbound) => strPolls = Len(calls) /\ futPolls = 0)
    /\ [][/\ ~IsPollStep => strPolls' = strPolls /\ futPolls' = futPolls
          /\ IsPollStep =>
               /\ strPolls' - strPolls = Count(calls'[Len(calls')].str)
               /\ futPolls' - futPolls = Count(calls'[Len(calls')].fut)
               /\ (IsOutbound \/ IsInbound) => strPolls' = strPolls + 1]_vars

\* Three polls of the Lazy adapter polled the future twice and the stream
\* twice: the second polled both.
C11_Witness ==
    /\ IsLazy
    /\ Len(calls) = 3
    /\ futPolls = 2
    /\ strPolls = 2

\* C12: in a poll that polls the wrapped stream (every poll of an eager
\* adapter, and of the Lazy adapter those made with a stream), the adapter
\* returns Pending exactly if the stream did and exhaustion exactly if the
\* stream did; an internal stream answering A, B, exhaustion makes the
\* Outbound adapter return A, B, exhaustion.
C12_PendingAndExhaustionForwarded ==
    /\ \A i \in Calls :
         calls[i].str # NotPolled =>
           /\ calls[i].ret = Pending <=> calls[i].str = Pending
           /\ calls[i].ret = Ready(None) <=> calls[i].str = Ready(None)
    /\ IsOutbound =>
         \A A \in Batches, B \in Batches :
           IsPrefix(StrLog, <<Ready(Some(Ok(RecordBatch(ctor[2], <<A>>)))),
                              Ready(Some(Ok(RecordBatch(ctor[2], <<B>>)))),
                              Ready(None)>>)
           => /\ Len(calls) <= 3
              /\ \A i \in Calls :
                   calls[i].ret = <<Ready(Some(Ok(<<A>>))), Ready(Some(Ok(<<B>>))),
                                    Ready(None)>>[i]

\* The Outbound adapter returned X, Y and exhaustion.
C12_Witness ==
    /\ IsOutbound
    /\ Len(calls) = 3
    /\ calls[1].ret = Ready(Some(Ok(<<"X">>)))
    /\ calls[2].ret = Ready(Some(Ok(<<"Y">>)))
    /\ calls[3].ret = Ready(None)

\* The Lazy adapter forwarded a pending and then the exhaustion of its
\* stream.
C12_WitnessLazy ==
    /\ IsLazy
    /\ Len(calls) = 3
    /\ calls[2].str = Pending
    /\ calls[2].ret = Pending
    /\ calls[3].ret = Ready(None)

\* The Inbound adapter forwarded a pending and then exhaustion.
C12_WitnessInbound ==
    /\ IsInbound
    /\ Len(calls) = 2
    /\ calls[1].ret = Pending
    /\ calls[2].ret = Ready(None)

\* C13: Lazy adapter: a poll_next in which the future reports pending
\* returns Pending, polls no stream and leaves the adapter as it was: still
\* Uninit with the same future, the same schema.
C13_PendingFutureLeavesAdapter ==
    [][(IsLazy /\ IsPollStep /\ calls'[Len(calls')].fut = Pending) =>
         /\ lazy' = lazy
         /\ lazy'[1].state = Uninit("future")
         /\ lazy'[1].schema = ctor[2]
         /\ calls'[Len(calls')].ret = Pending
         /\ calls'[Len(calls')].str = NotPolled
         /\ strPolls' = strPolls
         /\ streamHint' = streamHint]_vars

\* The future was pending in two polls.
C13_Witness ==
    /\ IsLazy
    /\ Len(calls) = 2
    /\ calls[1].fut = Pending
    /\ calls[2].fut = Pending
    /\ IsUninit(lazy[1].state)

\* C14: Lazy adapter: a stream is polled only in a call in or after which
\* the future has resolved to a stream; while the state is not Inited(Ok) no
\* stream has been polled, and after a failed resolution none ever is.
C14_StreamPolledOnlyWhenResolved ==
    IsLazy =>
      /\ \A i \in Calls :
           calls[i].str # NotPolled => \E j \in 1 .. i : ResolvesOk(calls[j])
      /\ ~IsInitedOk(lazy[1].state) => strPolls = 0 /\ streamHint = <<>>
      /\ \A i \in Calls :
           ResolvesErr(calls[i]) =>
             /\ strPolls = 0
             /\ \A j \in Calls : calls[j].str = NotPolled

\* The future failed in the second poll and two polls followed; no stream
\* was polled.
C14_Witness ==
    /\ IsLazy
    /\ Len(calls) = 4
    /\ calls[1].fut = Pending
    /\ ResolvesErr(calls[2])
    /\ strPolls = 0

\* The stream was first polled in the third call, the one that resolved the
\* future.
C14_WitnessResolved ==
    /\ IsLazy
    /\ Len(calls) = 4
    /\ ResolvesOk(calls[3])
    /\ strPolls = 2

\* C15: no adapter remembers exhaustion: the poll_next after one in which
\* the wrapped stream reported Ready(None) polls the stream again and returns
\* the kind of result that poll gave, with the same batch when it is a batch;
\* so it returns Ready(None) exactly when the stream reports it again.
C15_ExhaustionNotRemembered ==
    \A i \in Calls :
      (i < Len(calls) /\ calls[i].str = Ready(None)) =>
        /\ calls[i].ret = Ready(None)
        /\ calls[i + 1].str # NotPolled
        /\ Shape(calls[i + 1].ret) = Shape(calls[i + 1].str)
        /\ IsReadySomeOk(calls[i + 1].str) => Raw(calls[i + 1].ret) = Raw(calls[i + 1].str)
        /\ calls[i + 1].ret = Ready(None) <=> calls[i + 1].str = Ready(None)
        /\ IsLazy => IsInitedOk(lazy[1].state)

\* The Inbound adapter emitted batch X right after the stream's exhaustion.
C15_Witness ==
    /\ IsInbound
    /\ Len(calls) = 3
    /\ calls[2].str = Ready(None)
    /\ IsReadySomeOk(calls[3].ret)
    /\ Raw(calls[3].ret) = "X"

\* The same for the Outbound adapter.
C15_WitnessOutbound ==
    /\ IsOutbound
    /\ Len(calls) = 2
    /\ calls[1].str = Ready(None)
    /\ IsReadySomeOk(calls[2].ret)

\* The Lazy adapter, Inited with a stream, emitted a batch after exhaustion
\* and then exhaustion again.
C15_WitnessLazy ==
    /\ IsLazy
    /\ Len(calls) = 4
    /\ calls[2].str = Ready(None)
    /\ IsReadySomeOk(calls[3].ret)
    /\ calls[4].ret = Ready(None)

\* C16: Lazy adapter: every emitted batch carries the schema given to the
\* constructor, Schema::try_from is never called, and the resolved stream is
\* stored with a DataFusion schema of its own, whichever it is, and polled in
\* the call that resolved it.
C16_ConstructorSchemaOnBatches ==
    IsLazy =>
      /\ convCalls = 0
      /\ lazy[1].schema = ctor[2]
      /\ \A i \in Calls :
           /\ IsReadySomeOk(calls[i].ret) =>
                /\ calls[i].ret[4] = ctor[2]
                /\ IsReadySomeOk(calls[i].str)
                /\ Raw(calls[i].ret) = Raw(calls[i].str)
           /\ ResolvesOk(calls[i]) =>
                /\ calls[i].str # NotPolled
                /\ IsInitedOk(lazy[1].state)
                /\ lazy[1].state[3].schema \in DfSchemas

\* Constructed with S1, resolved to a stream of schema dfS2: batch X came
\* out under S1.
C16_Witness ==
    /\ IsLazy
    /\ ctor[2] = "S1"
    /\ IsInitedOk(lazy[1].state)
    /\ lazy[1].state[3].schema = "dfS2"
    /\ Len(calls) = 2
    /\ calls[2].ret = Ready(Some(Ok(RecordBatch("S1", <<"X">>))))

\* The same with a stream whose schema has no conversion at all.
C16_WitnessUnsupported ==
    /\ IsLazy
    /\ IsInitedOk(lazy[1].state)
    /\ try_from(lazy[1].state[3].schema)[1] = "Err"
    /\ Len(calls) = 1
    /\ IsReadySomeOk(calls[1].ret)
    /\ calls[1].ret[4] = ctor[2]

----------------------------------------------------------------------------
(* The Lazy adapter polled by a consumer until it sees the end, against a  *)
(* future that resolves and a stream that is finite.                       *)

\* Most Pending answers of the future before it resolves.
MaxFutPending == 2
\* Most answers of the stream (items and Pending) before it is exhausted.
MaxItems == 3

\* What a finite stream answers before Ready(None).
StreamScripts ==
    UNION {[1 .. n -> DfPollResults \ {Ready(None)}] : n \in 0 .. MaxItems}

\* The future: pendings Pending answers, then outcome.  The stream: the
\* answers in items, then Ready(None); all is the whole script.
LiveEnvs ==
    {[pendings |-> n, outcome |-> Ready(Ok(<<s>>)), items |-> sc, all |-> sc] :
        n \in 0 .. MaxFutPending, s \in DfStreams, sc \in StreamScripts}
      \cup {[pendings |-> n, outcome |-> Ready(Err(<<e>>)), items |-> <<>>, all |-> <<>>] :
              n \in 0 .. MaxFutPending, e \in DfErrors}

\* What the future answers if poll_next polls it.
LiveFutureAnswer(state, e) ==
    IF state[1] = "Uninit"
    THEN (IF e.pendings > 0 THEN Pending ELSE e.outcome)
    ELSE NotPolled

\* What the stream answers if poll_next polls it.
LiveStreamAnswer(state, resolved, e) ==
    IF \/ state[1] = "Inited" /\ state[2] = "Ok"
       \/ state[1] = "Uninit" /\ resolved[1] = "Ready" /\ resolved[2] = "Ok"
    THEN [item |-> IF e.items = <<>> THEN Ready(None) ELSE Head(e.items),
          hint |-> e.outcome[3].hint]
    ELSE [item |-> NotPolled, hint |-> <<0, None>>]

\* The latest poll_next returned exhaustion.
ObservedExhaustion == calls # <<>> /\ calls[Len(calls)].ret = Ready(None)
\* The latest poll_next returned the resolution-failure error.
ObservedFailure ==
    /\ calls # <<>>
    /\ IsReadySomeErr(calls[Len(calls)].ret)
    /\ calls[Len(calls)].ret[4] = "CreateRecordBatches"
Observed == ObservedExhaustion \/ ObservedFailure

LiveInit ==
    /\ outbound = <<>>
    /\ inbound = <<>>
    /\ lazy = <<>>
    /\ ctor = <<>>
    /\ calls = <<>>
    /\ last = <<"none">>
    /\ convCalls = 0
    /\ streamHint = <<>>
    /\ futPolls = 0
    /\ strPolls = 0
    /\ env \in LiveEnvs

\* adapter.poll_next(cx) by a consumer that polls until it has seen
\* exhaustion or the resolution failure.
LivePollLazy ==
    /\ lazy # <<>>
    /\ ~Observed
    /\ LET resolved == LiveFutureAnswer(lazy[1].state, env)
           polled == LiveStreamAnswer(lazy[1].state, resolved, env)
           r == AsyncRecordBatchStreamAdapter_poll_next(lazy[1], resolved, polled)
       IN  /\ lazy' = <<r.self>>
           /\ calls' = Append(calls, Call(r, r.iters))
           /\ streamHint' = IF r.str = NotPolled THEN streamHint ELSE polled.hint
           /\ futPolls' = futPolls + r.nfut
           /\ strPolls' = strPolls + r.nstr
           /\ env' = [env EXCEPT
                        !.pendings = IF r.nfut > 0 /\ @ > 0 THEN @ - 1 ELSE @,
                        !.items = IF r.nstr > 0 /\ @ # <<>> THEN Tail(@) ELSE @]
    /\ last' = <<"poll_next">>
    /\ UNCHANGED <<outbound, inbound, ctor, convCalls>>

LiveNext ==
    \/ NewLazy
    \/ LivePollLazy

\* The consumer keeps polling: weak fairness on poll_next.
LiveSpec == LiveInit /\ [][LiveNext]_vars /\ WF_vars(LivePollLazy)

\* The answers of a stream script as a log with field item.
ScriptLog(script) == [i \in 1 .. Len(script) |-> [item |-> script[i]]]

\* C17: Lazy adapter under a consumer that keeps polling, a future that
\* resolves and a finite stream: every poll_next call makes one or two passes
\* through the loop, two only in the call in which the future resolves;
\* exhaustion is observed only after a successful resolution, when the stream
\* has given all its answers and every one of its items has been emitted;
\* the CreateRecordBatches error is observed only after a failed resolution
\* and carries the failure; and once the adapter exists the consumer
\* eventually observes one of the two.
C17_Progress ==
    /\ [](\A i \in Calls :
            /\ calls[i].iters \in {1, 2}
            /\ calls[i].iters = 2 <=> Resolves(calls[i]))
    /\ [](ObservedExhaustion =>
            /\ env.outcome[2] = "Ok"
            /\ env.items = <<>>
            /\ StrLog = env.all \o <<Ready(None)>>
            /\ BatchesOf(calls, "ret") = BatchesOf(ScriptLog(env.all), "item")
            /\ \A i \in Calls :
                 calls[i].str # NotPolled => Shape(calls[i].ret) = Shape(calls[i].str))
    /\ [](ObservedFailure =>
            /\ env.outcome[2] = "Err"
            /\ calls[Len(calls)].ret = Ready(Some(Err(CreateRecordBatches(<<env.outcome[3]>>))))
            /\ strPolls = 0)
    /\ (IsLazy ~> Observed)

\* The future was pending twice, the stream gave X, Pending, Y and the sixth
\* poll returned exhaustion.
C17_Witness ==
    /\ ObservedExhaustion
    /\ env.all = <<Ready(Some(Ok(<<"X">>))), Pending, Ready(Some(Ok(<<"Y">>)))>>
    /\ futPolls = 3
    /\ Len(calls) = 6
    /\ BatchesOf(calls, "ret") = <<"X", "Y">>

\* The future was pending twice and then failed; the third poll returned the
\* error.
C17_WitnessFailure ==
    /\ ObservedFailure
    /\ futPolls = 3
    /\ Len(calls) = 3

====
